---- MODULE Spec2Model ----
(***************************************************************************)
(* A model of src/src/first.rs: a singly linked stack `List<T>` whose      *)
(* nodes are boxes owned by the head slot or by the predecessor's `next`   *)
(* slot, with peek / peek_mut, an iterative Drop, and the three iteration  *)
(* forms ListIntoIter, ListIter and ListIterMut.                           *)
(*                                                                         *)
(* The heap is a function from node identities to Node records; `live` is  *)
(* the set of allocated boxes.  An owner slot (head, a node's next, a      *)
(* local of a running operation) holds a node identity or Nil (None).      *)
(* push, pop and drop are broken into the steps at which the ownership of  *)
(* a box moves, so that the states in between are states of the model.     *)
(***************************************************************************)
EXTENDS Integers, Sequences, FiniteSets

\* ----- bounds of the model ------------------------------------------------
MaxNodes == 3
MaxVal == 2
NumIters == 2

Nil == 0
Ids == 1..MaxNodes
Values == 1..MaxVal
IterIds == 1..NumIters

\* ----- Option<T> ----------------------------------------------------------
None == [some |-> FALSE, val |-> 0]
Some(v) == [some |-> TRUE, val |-> v]

\* ----- Node<T> ------------------------------------------------------------
Node(e, n) == [elem |-> e, next |-> n]
\* the content of a heap cell that holds no box
Unallocated == Node(0, Nil)

VARIABLES
    head,        \* List.head : Link<T>
    nodes,       \* the heap: node identity -> Node
    live,        \* the allocated boxes
    tmp,         \* the Link held by the running operation: the value of
                 \* head.take() in push and pop, the local `next` in drop
    cur,         \* the local `node` of the loop in drop
    arg,         \* the argument `elem` of the running push
    pc,          \* position inside the running operation, "idle" between calls
    mode,        \* how the caller holds the list: "owned", "shared" (&List
                 \* borrowed by ListIter), "excl" (&mut List borrowed by
                 \* ListIterMut), "peekmut" (borrowed by the result of
                 \* peek_mut), "into" (moved into ListIntoIter), "gone"
    result,      \* the last value returned to the caller, with the call's name
    iter,        \* the ListIter values: per iterator its `next` cursor
    iterMutNext, \* ListIterMut.next
    held,        \* the &mut T references handed to the caller, in yield order
    pushed,      \* caller's record: the values pushed and not yet popped,
                 \* oldest first, as last written by the caller
    snap,        \* caller's record: the chain when the traversal or drop began
    out,         \* caller's record: the values yielded by ListIntoIter
    freed,       \* the boxes released by the running drop, in release order
    depth,       \* the deepest nesting of box releases in the running drop
    loops        \* the iterations of the loop of the running drop

vars == <<head, nodes, live, tmp, cur, arg, pc, mode, result, iter,
          iterMutNext, held, pushed, snap, out, freed, depth, loops>>

listVars == <<head, nodes, live>>
localVars == <<tmp, cur, arg>>
iterVars == <<iter, iterMutNext, held>>
dropVars == <<freed, depth, loops>>

\* ----- the chain ----------------------------------------------------------
RECURSIVE ChainFrom(_, _, _)
\* the node identities met by following `next` from slot value n
ChainFrom(ns, n, fuel) ==
    IF n = Nil \/ fuel = 0 THEN <<>>
    ELSE <<n>> \o ChainFrom(ns, ns[n].next, fuel - 1)

RECURSIVE EndsInNil(_, _, _)
EndsInNil(ns, n, fuel) ==
    IF n = Nil THEN TRUE
    ELSE IF fuel = 0 THEN FALSE
    ELSE EndsInNil(ns, ns[n].next, fuel - 1)

ChainIds == ChainFrom(nodes, head, MaxNodes + 1)
ChainElems == [i \in 1..Len(ChainIds) |-> nodes[ChainIds[i]].elem]

Reverse(s) == [i \in 1..Len(s) |-> s[Len(s) + 1 - i]]
Max(a, b) == IF a >= b THEN a ELSE b
Front(s) == SubSeq(s, 1, Len(s) - 1)
Last(s) == s[Len(s)]

Ret(op, r) == [op |-> op, ret |-> r]

\* the chain as the caller can record it: identities and elements, head first
Snapshot ==
    [i \in 1..Len(ChainIds) |->
        [id |-> ChainIds[i], elem |-> nodes[ChainIds[i]].elem]]
SnapIds == [i \in 1..Len(snap) |-> snap[i].id]
SnapElems == [i \in 1..Len(snap) |-> snap[i].elem]
Range(s) == {s[i] : i \in 1..Len(s)}

NoIter == [on |-> FALSE, next |-> Nil, yielded |-> <<>>, done |-> FALSE]

\* ----- List::new ----------------------------------------------------------
Init ==
    /\ head = Nil
    /\ nodes = [n \in Ids |-> Unallocated]
    /\ live = {}
    /\ tmp = Nil /\ cur = Nil /\ arg = 0
    /\ pc = "idle" /\ mode = "owned"
    /\ result = Ret("new", None)
    /\ iter = [i \in IterIds |-> NoIter]
    /\ iterMutNext = Nil
    /\ held = <<>>
    /\ pushed = <<>> /\ snap = <<>> /\ out = <<>>
    /\ freed = <<>> /\ depth = 0 /\ loops = 0

\* a new list after the previous one was dropped
New ==
    /\ mode = "gone" /\ pc = "idle"
    /\ head' = Nil
    /\ mode' = "owned"
    /\ result' = Ret("new", None)
    /\ pushed' = <<>> /\ snap' = <<>> /\ out' = <<>>
    /\ freed' = <<>> /\ depth' = 0 /\ loops' = 0
    /\ UNCHANGED <<nodes, live, localVars, pc, iterVars>>

\* ----- Option::take, Option::as_ref, Option::as_mut -----------------------
\* take moves the content out of the slot and leaves None in it
OptionTake(slot) == [value |-> slot, left |-> Nil]
\* as_ref and as_mut borrow the content and leave the slot as it is
OptionAsRef(slot) == [value |-> slot, left |-> slot]

\* ----- List::push ---------------------------------------------------------
\* push that copies the head into the new node and leaves it in place
PushTakeKeepsHead(v) ==
    /\ pc = "idle" /\ mode = "owned"
    /\ Cardinality(live) < MaxNodes
    /\ tmp' = head
    /\ head' = head
    /\ arg' = v
    /\ pc' = "push_taken"
    /\ UNCHANGED <<nodes, live, cur, mode, result, iterVars, pushed, snap,
                   out, dropVars>>

\* `self.head.take()`: the argument of the field `next` is evaluated first
PushTake(v) ==
    /\ pc = "idle" /\ mode = "owned"
    /\ Cardinality(live) < MaxNodes
    /\ tmp' = OptionTake(head).value
    /\ head' = OptionTake(head).left
    /\ arg' = v
    /\ pc' = "push_taken"
    /\ UNCHANGED <<nodes, live, cur, mode, result, iterVars, pushed, snap,
                   out, dropVars>>

\* the identity Box::new gives the new box. The program never looks at an
\* identity, and renaming the identities maps every behaviour to a behaviour,
\* so one free identity stands for all of them.
FreshBox == CHOOSE n \in Ids \ live : \A m \in Ids \ live : n <= m

\* `Box::new(Node { elem, next })`: the box is a temporary of push
PushAlloc ==
    /\ pc = "push_taken"
    /\ nodes' = [nodes EXCEPT ![FreshBox] = Node(arg, tmp)]
    /\ live' = live \cup {FreshBox}
    /\ tmp' = FreshBox
    /\ pc' = "push_boxed"
    /\ UNCHANGED <<head, cur, arg, mode, result, iterVars, pushed, snap,
                   out, dropVars>>

\* `self.head = Some(box)`
PushInstall ==
    /\ pc = "push_boxed"
    /\ head' = tmp
    /\ tmp' = Nil
    /\ arg' = 0
    /\ pc' = "idle"
    /\ result' = Ret("push", None)
    /\ pushed' = Append(pushed, arg)
    /\ UNCHANGED <<nodes, live, cur, mode, iterVars, snap, out, dropVars>>

\* ----- List::pop ----------------------------------------------------------
\* `self.head.take()`
PopTake ==
    /\ pc = "idle" /\ mode \in {"owned", "into"}
    /\ tmp' = OptionTake(head).value
    /\ head' = OptionTake(head).left
    /\ pc' = "pop_taken"
    /\ UNCHANGED <<nodes, live, cur, arg, mode, result, iterVars, pushed,
                   snap, out, dropVars>>

\* `.map(..)` of None: the closure does not run
PopNone ==
    /\ pc = "pop_taken" /\ tmp = Nil
    /\ pc' = "idle"
    /\ result' = Ret("pop", None)
    /\ UNCHANGED <<listVars, localVars, mode, iterVars, pushed, snap, out,
                   dropVars>>

\* pop that forgets to move the successor into the head
PopMoveForgets ==
    /\ pc = "pop_taken" /\ tmp # Nil
    /\ head' = head
    /\ nodes' = [nodes EXCEPT ![tmp].next = Nil]
    /\ pc' = "pop_moved"
    /\ UNCHANGED <<live, localVars, mode, result, iterVars, pushed, snap,
                   out, dropVars>>

\* `self.head = node.next`: the successor moves out of the box
PopMove ==
    /\ pc = "pop_taken" /\ tmp # Nil
    /\ head' = nodes[tmp].next
    /\ nodes' = [nodes EXCEPT ![tmp].next = Nil]
    /\ pc' = "pop_moved"
    /\ UNCHANGED <<live, localVars, mode, result, iterVars, pushed, snap,
                   out, dropVars>>

\* pop that returns the element and never releases the box
PopReturnLeaks ==
    /\ pc = "pop_moved"
    /\ result' = Ret("pop", Some(nodes[tmp].elem))
    /\ tmp' = Nil
    /\ pc' = "idle"
    /\ pushed' = IF pushed = <<>> THEN pushed ELSE Front(pushed)
    /\ out' = IF mode = "into" THEN Append(out, nodes[tmp].elem) ELSE out
    /\ UNCHANGED <<listVars, cur, arg, mode, iterVars, snap, dropVars>>

\* `node.elem` is returned and the box of `node` is released
PopReturn ==
    /\ pc = "pop_moved"
    /\ result' = Ret("pop", Some(nodes[tmp].elem))
    /\ nodes' = [nodes EXCEPT ![tmp] = Unallocated]
    /\ live' = live \ {tmp}
    /\ tmp' = Nil
    /\ pc' = "idle"
    /\ pushed' = IF pushed = <<>> THEN pushed ELSE Front(pushed)
    /\ out' = IF mode = "into" THEN Append(out, nodes[tmp].elem) ELSE out
    /\ UNCHANGED <<head, cur, arg, mode, iterVars, snap, dropVars>>

\* ----- List::peek ---------------------------------------------------------
\* peek that answers an empty list with a default element
PeekDefault ==
    /\ pc = "idle" /\ mode \in {"owned", "shared"}
    /\ head' = head
    /\ result' = Ret("peek", IF head = Nil THEN Some(0)
                             ELSE Some(nodes[head].elem))
    /\ UNCHANGED <<nodes, live, localVars, pc, mode, iterVars, pushed, snap,
                   out, dropVars>>

\* peek that takes the head instead of borrowing it
PeekTakes ==
    /\ pc = "idle" /\ mode \in {"owned", "shared"}
    /\ head' = OptionTake(head).left
    /\ result' = Ret("peek", IF head = Nil THEN None
                             ELSE Some(nodes[head].elem))
    /\ UNCHANGED <<nodes, live, localVars, pc, mode, iterVars, pushed, snap,
                   out, dropVars>>

Peek ==
    /\ pc = "idle" /\ mode \in {"owned", "shared"}
    /\ head' = OptionAsRef(head).left
    /\ result' = Ret("peek", IF OptionAsRef(head).value = Nil THEN None
                             ELSE Some(nodes[OptionAsRef(head).value].elem))
    /\ UNCHANGED <<nodes, live, localVars, pc, mode, iterVars, pushed, snap,
                   out, dropVars>>

\* ----- List::peek_mut -----------------------------------------------------
\* peek_mut that hands out the element of the node after the head
PeekMutSecond ==
    /\ pc = "idle" /\ mode = "owned"
    /\ head' = head
    /\ IF head = Nil
       THEN /\ result' = Ret("peek_mut", None)
            /\ UNCHANGED <<mode, held>>
       ELSE /\ result' = Ret("peek_mut", Some(nodes[head].elem))
            /\ held' = <<IF nodes[head].next = Nil THEN head
                         ELSE nodes[head].next>>
            /\ mode' = "peekmut"
    /\ UNCHANGED <<nodes, live, localVars, pc, iter, iterMutNext, pushed,
                   snap, out, dropVars>>

PeekMut ==
    /\ pc = "idle" /\ mode = "owned"
    /\ head' = OptionAsRef(head).left
    /\ IF OptionAsRef(head).value = Nil
       THEN /\ result' = Ret("peek_mut", None)
            /\ UNCHANGED <<mode, held>>
       ELSE /\ result' = Ret("peek_mut",
                             Some(nodes[OptionAsRef(head).value].elem))
            /\ held' = <<OptionAsRef(head).value>>
            /\ mode' = "peekmut"
    /\ UNCHANGED <<nodes, live, localVars, pc, iter, iterMutNext, pushed,
                   snap, out, dropVars>>

\* `*p = w` through the k-th reference the caller holds
WriteRef(k, w) ==
    /\ pc = "idle" /\ mode \in {"peekmut", "excl"}
    /\ k \in 1..Len(held)
    /\ nodes' = [nodes EXCEPT ![held[k]].elem = w]
    /\ pushed' = IF k <= Len(pushed)
                 THEN [pushed EXCEPT ![Len(pushed) + 1 - k] = w]
                 ELSE pushed
    /\ UNCHANGED <<head, live, localVars, pc, mode, result, iterVars, snap,
                   out, dropVars>>

\* the reference returned by peek_mut goes out of scope
PeekMutEnd ==
    /\ pc = "idle" /\ mode = "peekmut"
    /\ held' = <<>>
    /\ mode' = "owned"
    /\ UNCHANGED <<listVars, localVars, pc, result, iter, iterMutNext,
                   pushed, snap, out, dropVars>>

\* ----- Drop for List ------------------------------------------------------
\* what releasing the box n releases: the drop glue of Box<Node<T>> drops
\* the field `next`, and with it the box that `next` owns, and so on
BoxDrop(ns, n) == ChainFrom(ns, n, MaxNodes + 1)

\* `let mut next = self.head.take()`
DropTake ==
    /\ pc = "idle" /\ mode \in {"owned", "into"}
    /\ tmp' = OptionTake(head).value
    /\ head' = OptionTake(head).left
    /\ pc' = "drop_loop"
    /\ snap' = Snapshot
    /\ freed' = <<>> /\ depth' = 0 /\ loops' = 0
    /\ UNCHANGED <<nodes, live, cur, arg, mode, result, iterVars, pushed,
                   out>>

\* `while let Some(mut node) = next`: the box moves from `next` to `node`
DropBind ==
    /\ pc = "drop_loop" /\ tmp # Nil
    /\ cur' = tmp
    /\ tmp' = Nil
    /\ loops' = loops + 1
    /\ pc' = "drop_bound"
    /\ UNCHANGED <<listVars, arg, mode, result, iterVars, pushed, snap, out,
                   freed, depth>>

\* drop that reads the successor and leaves it attached to the node
DropDetachKeepsNext ==
    /\ pc = "drop_bound"
    /\ tmp' = nodes[cur].next
    /\ nodes' = nodes
    /\ pc' = "drop_detached"
    /\ UNCHANGED <<head, live, cur, arg, mode, result, iterVars, pushed,
                   snap, out, dropVars>>

\* `next = node.next.take()`
DropDetach ==
    /\ pc = "drop_bound"
    /\ tmp' = OptionTake(nodes[cur].next).value
    /\ nodes' = [nodes EXCEPT ![cur].next = OptionTake(nodes[cur].next).left]
    /\ pc' = "drop_detached"
    /\ UNCHANGED <<head, live, cur, arg, mode, result, iterVars, pushed,
                   snap, out, dropVars>>

\* `node` goes out of scope at the end of the loop body
DropRelease ==
    /\ pc = "drop_detached"
    /\ freed' = freed \o BoxDrop(nodes, cur)
    /\ depth' = Max(depth, Len(BoxDrop(nodes, cur)))
    /\ live' = live \ Range(BoxDrop(nodes, cur))
    /\ nodes' = [n \in Ids |-> IF n \in Range(BoxDrop(nodes, cur))
                               THEN Unallocated ELSE nodes[n]]
    /\ cur' = Nil
    /\ pc' = "drop_loop"
    /\ UNCHANGED <<head, tmp, arg, mode, result, iterVars, pushed, snap,
                   out, loops>>

\* `next` is None: the loop and drop end, the list is gone
DropExit ==
    /\ pc = "drop_loop" /\ tmp = Nil
    /\ pc' = "idle"
    /\ mode' = "gone"
    /\ result' = Ret("drop", None)
    /\ UNCHANGED <<listVars, localVars, iterVars, pushed, snap, out,
                   dropVars>>

\* ----- ListIntoIter -------------------------------------------------------
\* `into_iter(self)`: the list moves into the iterator; `next` is PopTake ..
\* PopReturn on the wrapped list
IntoIter ==
    /\ pc = "idle" /\ mode = "owned"
    /\ mode' = "into"
    /\ snap' = Snapshot
    /\ out' = <<>>
    /\ result' = Ret("into_iter", None)
    /\ UNCHANGED <<listVars, localVars, pc, iterVars, pushed, dropVars>>

\* ----- ListIter -----------------------------------------------------------
OthersOn(i) == \E j \in IterIds \ {i} : iter[j].on

\* `(&list).into_iter()`
IterStart(i) ==
    /\ pc = "idle" /\ mode \in {"owned", "shared"}
    /\ ~iter[i].on
    /\ head' = OptionAsRef(head).left
    /\ iter' = [iter EXCEPT ![i] = [on |-> TRUE,
                                    next |-> OptionAsRef(head).value,
                                    yielded |-> <<>>, done |-> FALSE]]
    /\ mode' = "shared"
    /\ result' = Ret("iter", None)
    /\ UNCHANGED <<nodes, live, localVars, pc, iterMutNext, held, pushed,
                   snap, out, dropVars>>

\* ListIter::next that takes the successor out of the node
IterNextTakes(i) ==
    /\ pc = "idle" /\ mode = "shared"
    /\ iter[i].on
    /\ IF iter[i].next = Nil
       THEN /\ iter' = [iter EXCEPT ![i].done = TRUE]
            /\ result' = Ret("iter_next", None)
            /\ UNCHANGED nodes
       ELSE /\ iter' = [iter EXCEPT
                  ![i].next = nodes[iter[i].next].next,
                  ![i].yielded = Append(@, nodes[iter[i].next].elem)]
            /\ nodes' = [nodes EXCEPT ![iter[i].next].next = Nil]
            /\ result' = Ret("iter_next", Some(nodes[iter[i].next].elem))
    /\ UNCHANGED <<head, live, localVars, pc, mode, iterMutNext, held,
                   pushed, snap, out, dropVars>>

\* `ListIter::next`
IterNext(i) ==
    /\ pc = "idle" /\ mode = "shared"
    /\ iter[i].on
    /\ IF iter[i].next = Nil
       THEN /\ iter' = [iter EXCEPT ![i].done = TRUE]
            /\ result' = Ret("iter_next", None)
            /\ UNCHANGED nodes
       ELSE /\ iter' = [iter EXCEPT
                  ![i].next = OptionAsRef(nodes[iter[i].next].next).value,
                  ![i].yielded = Append(@, nodes[iter[i].next].elem)]
            /\ nodes' = [nodes EXCEPT ![iter[i].next].next =
                            OptionAsRef(nodes[iter[i].next].next).left]
            /\ result' = Ret("iter_next", Some(nodes[iter[i].next].elem))
    /\ UNCHANGED <<head, live, localVars, pc, mode, iterMutNext, held,
                   pushed, snap, out, dropVars>>

\* the iterator goes out of scope, complete or not
IterEnd(i) ==
    /\ pc = "idle" /\ mode = "shared"
    /\ iter[i].on
    /\ iter' = [iter EXCEPT ![i] = NoIter]
    /\ mode' = IF OthersOn(i) THEN "shared" ELSE "owned"
    /\ UNCHANGED <<listVars, localVars, pc, result, iterMutNext, held,
                   pushed, snap, out, dropVars>>

\* ----- ListIterMut --------------------------------------------------------
\* into_iter of &mut List that starts at the node after the head
IterMutStartSkips ==
    /\ pc = "idle" /\ mode = "owned"
    /\ head' = head
    /\ iterMutNext' = IF head = Nil THEN Nil ELSE nodes[head].next
    /\ held' = <<>>
    /\ snap' = Snapshot
    /\ mode' = "excl"
    /\ result' = Ret("iter_mut", None)
    /\ UNCHANGED <<nodes, live, localVars, pc, iter, pushed, out, dropVars>>

\* `(&mut list).into_iter()`
IterMutStart ==
    /\ pc = "idle" /\ mode = "owned"
    /\ head' = OptionAsRef(head).left
    /\ iterMutNext' = OptionAsRef(head).value
    /\ held' = <<>>
    /\ snap' = Snapshot
    /\ mode' = "excl"
    /\ result' = Ret("iter_mut", None)
    /\ UNCHANGED <<nodes, live, localVars, pc, iter, pushed, out, dropVars>>

\* ListIterMut::next whose take empties the node's next slot as well
IterMutNextDetaches ==
    /\ pc = "idle" /\ mode = "excl"
    /\ IF iterMutNext = Nil
       THEN /\ iterMutNext' = Nil
            /\ result' = Ret("iter_mut_next", None)
            /\ UNCHANGED <<nodes, held>>
       ELSE /\ iterMutNext' = nodes[iterMutNext].next
            /\ nodes' = [nodes EXCEPT ![iterMutNext].next = Nil]
            /\ held' = Append(held, iterMutNext)
            /\ result' = Ret("iter_mut_next", Some(nodes[iterMutNext].elem))
    /\ UNCHANGED <<head, live, localVars, pc, mode, iter, pushed, snap, out,
                   dropVars>>

\* `ListIterMut::next`: `self.next.take()` empties the cursor, the closure
\* sets it to a borrow of the successor
IterMutNext ==
    /\ pc = "idle" /\ mode = "excl"
    /\ IF OptionTake(iterMutNext).value = Nil
       THEN /\ iterMutNext' = OptionTake(iterMutNext).left
            /\ result' = Ret("iter_mut_next", None)
            /\ UNCHANGED <<nodes, held>>
       ELSE /\ iterMutNext' = OptionAsRef(nodes[iterMutNext].next).value
            /\ nodes' = [nodes EXCEPT ![iterMutNext].next =
                            OptionAsRef(nodes[iterMutNext].next).left]
            /\ held' = Append(held, iterMutNext)
            /\ result' = Ret("iter_mut_next", Some(nodes[iterMutNext].elem))
    /\ UNCHANGED <<head, live, localVars, pc, mode, iter, pushed, snap, out,
                   dropVars>>

\* the iterator and the references it yielded go out of scope
IterMutEnd ==
    /\ pc = "idle" /\ mode = "excl"
    /\ iterMutNext' = Nil
    /\ held' = <<>>
    /\ snap' = <<>>
    /\ mode' = "owned"
    /\ UNCHANGED <<listVars, localVars, pc, result, iter, pushed, out,
                   dropVars>>

\* ----- the program --------------------------------------------------------
Next ==
    \/ New
    \/ \E v \in Values : PushTake(v)
    \/ PushAlloc
    \/ PushInstall
    \/ PopTake
    \/ PopNone
    \/ PopMove
    \/ PopReturn
    \/ Peek
    \/ PeekMut
    \/ \E k \in 1..MaxNodes, w \in Values : WriteRef(k, w)
    \/ PeekMutEnd
    \/ DropTake
    \/ DropBind
    \/ DropDetach
    \/ DropRelease
    \/ DropExit
    \/ IntoIter
    \/ \E i \in IterIds : IterStart(i)
    \/ \E i \in IterIds : IterNext(i)
    \/ \E i \in IterIds : IterEnd(i)
    \/ IterMutStart
    \/ IterMutNext
    \/ IterMutEnd

Spec == Init /\ [][Next]_vars

\* drop is a call that runs to its end: no step of it waits for anything
DropStep == DropBind \/ DropDetach \/ DropRelease \/ DropExit
FairSpec == Spec /\ WF_vars(DropStep)

\* ----- properties ---------------------------------------------------------
IsPrefix(p, q) == Len(p) <= Len(q) /\ \A i \in 1..Len(p) : p[i] = q[i]
NoRepeat(q) == Cardinality(Range(q)) = Len(q)
\* the list as List::new() makes it
EmptyList ==
    /\ head = Nil
    /\ live = {}
    /\ nodes = [n \in Ids |-> Unallocated]
Between == pc = "idle" /\ mode # "gone"

\* C1: LIFO order. A pop of a non-empty stack returns the most recently
\* pushed value that was not popped yet and removes exactly that element, a
\* pop returns None only when no pushed value is left, and after every push
\* and pop the chain holds the remaining pushed values, newest first.
C1_LIFO ==
    [][ /\ PushInstall => ChainElems' = <<arg>> \o Reverse(pushed)
        /\ PopReturn => /\ pushed # <<>>
                        /\ result' = Ret("pop", Some(Last(pushed)))
                        /\ ChainElems' = Reverse(Front(pushed))
        /\ PopNone => pushed = <<>> /\ ChainElems' = <<>>
      ]_vars

C1_Witness ==
    /\ pc = "idle" /\ mode = "owned"
    /\ result = Ret("pop", Some(2))
    /\ pushed = <<2, 1>>
    /\ ChainElems = <<1, 2>>

\* C2: underflow is reported as None. pop, peek and peek_mut of an empty
\* list return None and leave the list as List::new() makes it (so that a
\* following push acts as on a new list), no borrow stays behind, and peek
\* returns None only for an empty list.
C2_Underflow ==
    [][ /\ PopTake /\ EmptyList => tmp' = Nil /\ EmptyList'
        /\ PopNone => /\ EmptyList /\ EmptyList'
                      /\ result' = Ret("pop", None)
                      /\ tmp' = Nil /\ cur' = Nil
        /\ Peek /\ EmptyList => EmptyList' /\ result' = Ret("peek", None)
        /\ Peek /\ ~EmptyList => result'.ret.some
        /\ PeekMut /\ EmptyList => /\ EmptyList'
                                   /\ result' = Ret("peek_mut", None)
                                   /\ mode' = "owned" /\ held' = <<>>
        /\ PeekMut /\ ~EmptyList => result'.ret.some
      ]_vars

C2_Witness ==
    /\ pc = "idle" /\ mode = "into"
    /\ result = Ret("pop", None)
    /\ out = <<2, 1>>
    /\ EmptyList

\* C3: peek is a pure observer. It returns the element of the head, which is
\* the value the next pop returns (the newest pushed value not yet popped),
\* and the head, the nodes and their links are the same after the call.
C3_PeekPure ==
    [][ Peek => /\ head' = head /\ nodes' = nodes /\ live' = live
                /\ ChainElems' = ChainElems
                /\ pushed' = pushed
                /\ result'.ret = IF ChainElems = <<>> THEN None
                                 ELSE Some(Head(ChainElems))
                /\ pushed # <<>> => result'.ret = Some(Last(pushed))
      ]_vars

C3_Witness ==
    /\ pc = "idle" /\ mode = "owned"
    /\ result = Ret("peek", Some(2))
    /\ ChainElems = <<2, 1, 1>>

\* C4: a write of w through the reference of peek_mut replaces the element of
\* the head only. peek_mut itself changes nothing and hands out the head
\* node; after the write the chain is w followed by the old elements below
\* the head, over the same nodes in the same order; and the peek or pop that
\* follows returns the value last written.
C4_PeekMutWrite ==
    [][ /\ PeekMut => /\ head' = head /\ nodes' = nodes /\ live' = live
                      /\ head # Nil => held' = <<head>>
        /\ \A w \in Values :
              mode = "peekmut" /\ WriteRef(1, w) =>
                  /\ ChainElems # <<>>
                  /\ ChainElems' = <<w>> \o Tail(ChainElems)
                  /\ ChainIds' = ChainIds
                  /\ live' = live
                  /\ Last(pushed') = w
        /\ Peek /\ pushed # <<>> => result' = Ret("peek", Some(Last(pushed)))
        /\ PopReturn /\ pushed # <<>> =>
              result' = Ret("pop", Some(Last(pushed)))
      ]_vars

C4_Witness ==
    /\ pc = "idle" /\ mode = "peekmut"
    /\ result = Ret("peek_mut", Some(1))
    /\ ChainElems = <<2, 1, 1>>
    /\ pushed = <<1, 1, 2>>

\* C5: consuming iteration. Between two calls of next, the values yielded so
\* far followed by the elements still in the wrapped list are the elements
\* the list had when it was wrapped, head first, which is the order pops
\* return them in; only the nodes of the chain are allocated; and when next
\* has returned None all n elements were yielded, the wrapped list is empty
\* and no node is left allocated.
C5_IntoIter ==
    mode = "into" /\ pc = "idle" =>
        /\ out \o ChainElems = SnapElems
        /\ out \o Reverse(pushed) = SnapElems
        /\ live = Range(ChainIds)
        /\ result = Ret("pop", None) =>
              /\ out = SnapElems
              /\ Len(out) = Len(snap)
              /\ EmptyList

C5_Witness ==
    /\ mode = "into" /\ pc = "idle"
    /\ result = Ret("pop", None)
    /\ out = <<2, 1, 2>>
    /\ EmptyList

\* C6: read-only iteration. Every step of a ListIter (its creation, next,
\* its end) leaves the head, the nodes and their links as they were; an
\* iterator that made k steps has yielded the first k elements of the chain,
\* head first, and stands on node k+1; one that returned None has yielded
\* all n elements, so two traversals of the list yield the same sequence;
\* and when the list is back with its owner the chain still holds every
\* pushed value, newest first, which is what the following pops return.
C6_IterStep(i) ==
    IterStart(i) \/ IterNext(i) \/ IterEnd(i) =>
        /\ head' = head /\ nodes' = nodes /\ live' = live
        /\ pushed' = pushed

C6_IterState(i) ==
    iter[i].on =>
        /\ IsPrefix(iter[i].yielded, ChainElems)
        /\ iter[i].next = IF Len(iter[i].yielded) < Len(ChainIds)
                          THEN ChainIds[Len(iter[i].yielded) + 1] ELSE Nil
        /\ iter[i].done => iter[i].yielded = ChainElems

C6_ReadOnlyIter ==
    /\ [][\A i \in IterIds : C6_IterStep(i)]_vars
    /\ [](Between /\ mode = "shared" => \A i \in IterIds : C6_IterState(i))
    /\ [](\A i, j \in IterIds :
              iter[i].done /\ iter[j].done => iter[i].yielded = iter[j].yielded)
    /\ [](Between /\ mode \in {"owned", "shared"} =>
              ChainElems = Reverse(pushed))

C6_Witness ==
    /\ pc = "idle" /\ mode = "shared"
    /\ iter[1].done /\ iter[1].yielded = <<2, 1, 2>>
    /\ iter[2].on /\ iter[2].yielded = <<2>> /\ ~iter[2].done
    /\ result = Ret("iter_next", None)

\* C7: mutable iteration. While a ListIterMut lives, the chain is over the
\* same nodes in the same order as when it was created; after k steps the
\* references yielded are those of the first k nodes, head first, each once,
\* and the cursor stands on node k+1; each step yields the current value of
\* its element; when next has returned None all n nodes were visited; and
\* the chain holds, head first, what the caller last wrote to the i-th
\* yielded element, which is what the following pops return.
C7_MutIterState ==
    Between /\ mode = "excl" =>
        /\ ChainIds = SnapIds
        /\ IsPrefix(held, SnapIds)
        /\ NoRepeat(held)
        /\ result # Ret("iter_mut_next", None) =>
              iterMutNext = IF Len(held) < Len(snap)
                            THEN SnapIds[Len(held) + 1] ELSE Nil
        /\ result = Ret("iter_mut_next", None) => held = SnapIds
        /\ ChainElems = Reverse(pushed)

C7_MutIterStep ==
    IterMutNext /\ iterMutNext # Nil =>
        /\ Len(held) < Len(pushed)
        /\ result' = Ret("iter_mut_next",
                         Some(pushed[Len(pushed) - Len(held)]))
        /\ held' = Append(held, iterMutNext)

C7_MutableIter ==
    /\ []C7_MutIterState
    /\ [][C7_MutIterStep]_vars
    /\ [](Between /\ mode = "owned" => ChainElems = Reverse(pushed))

C7_Witness ==
    /\ pc = "idle" /\ mode = "excl"
    /\ result = Ret("iter_mut_next", None)
    /\ Len(held) = 3
    /\ SnapElems = <<1, 2, 1>>
    /\ ChainElems = <<2, 1, 2>>

\* C8: ownership. In every state, between calls and inside push, pop and
\* drop, every allocated node is held by exactly one owner slot (the head,
\* the next slot of an allocated node, or a local of the running operation),
\* no slot holds a node that is not allocated, and the chain from the head
\* repeats no node and ends in an empty slot.
Owners(n) ==
    {s \in {"head", "tmp", "cur"} :
        \/ s = "head" /\ head = n
        \/ s = "tmp" /\ tmp = n
        \/ s = "cur" /\ cur = n}
    \cup {m \in live : nodes[m].next = n}

C8_Ownership ==
    /\ \A n \in live : Cardinality(Owners(n)) = 1
    /\ \A n \in Ids \ live : Owners(n) = {} /\ nodes[n] = Unallocated
    /\ EndsInNil(nodes, head, MaxNodes)
    /\ NoRepeat(ChainIds)
    /\ Range(ChainIds) \subseteq live

C8_Witness ==
    /\ pc = "push_boxed"
    /\ head = Nil
    /\ tmp # Nil
    /\ Len(ChainFrom(nodes, tmp, MaxNodes + 1)) = 3

\* C9: destruction. drop is a loop that releases the nodes of the list one
\* per iteration, head first and each once; when a node is released its next
\* slot is empty, so no release is nested in another; and a drop that has
\* begun ends, after exactly n iterations, with the head empty and no node
\* allocated.
Dropping == pc \in {"drop_loop", "drop_bound", "drop_detached"}

C9_DropState ==
    /\ depth <= 1
    /\ Dropping =>
          /\ head = Nil
          /\ freed \o ChainFrom(nodes, cur, MaxNodes + 1)
                   \o ChainFrom(nodes, tmp, MaxNodes + 1) = SnapIds
          /\ loops = Len(freed) + (IF cur = Nil THEN 0 ELSE 1)
          /\ live = Range(SnapIds) \ Range(freed)
    /\ pc = "drop_detached" => cur # Nil /\ nodes[cur].next = Nil
    /\ mode = "gone" =>
          /\ loops = Len(snap)
          /\ freed = SnapIds
          /\ NoRepeat(freed)
          /\ depth = IF snap = <<>> THEN 0 ELSE 1
          /\ EmptyList

C9_IterativeDrop ==
    /\ []C9_DropState
    /\ (Dropping ~> mode = "gone")

C9_Witness ==
    /\ mode = "gone"
    /\ loops = 3
    /\ Len(freed) = 3
    /\ depth = 1

\* C10: mutable iteration detaches nothing. A step of ListIterMut changes no
\* slot of the list: the head, every next slot and the allocated nodes are
\* the same after it; while the iterator lives the list owns all n nodes in
\* their first order and only elements already yielded differ from their
\* first value; and next on an exhausted iterator returns None and changes
\* neither the list nor the cursor.
C10_Step ==
    IterMutNext =>
        /\ head' = head /\ live' = live /\ nodes' = nodes
        /\ iterMutNext = Nil =>
              /\ result' = Ret("iter_mut_next", None)
              /\ iterMutNext' = Nil
              /\ held' = held

C10_State ==
    Between /\ mode = "excl" =>
        /\ ChainIds = SnapIds
        /\ live = Range(SnapIds)
        /\ \A j \in 1..Len(snap) :
              j > Len(held) => nodes[SnapIds[j]].elem = SnapElems[j]

C10_NoDetach ==
    /\ [][C10_Step]_vars
    /\ []C10_State

C10_Witness ==
    /\ pc = "idle" /\ mode = "excl"
    /\ Len(snap) = 3
    /\ Len(held) = 1
    /\ ChainElems[1] # SnapElems[1]
    /\ result = Ret("iter_mut_next", Some(1))

====
